---- MODULE Spec2Model ----
(***************************************************************************)
(* Shard placement, naming, indexing and linking of mt2ph5:                *)
(*   src/ph5_tools.py  generic2ph5                                         *)
(*   src/mttoph5.py    MTtoPH5                                             *)
(* The store is a master container (index table, mirrored Das groups,      *)
(* sorts array table, nodes under /Experiment_g/Receivers_g) and a         *)
(* directory of mini files miniPH5_NNNNN.ph5.                              *)
(***************************************************************************)
EXTENDS Integers, Sequences, FiniteSets, TLC

(* ---------------------------- bounds ----------------------------------- *)
\* number of calls in one behaviour: recordings put in by to_ph5, and calls
\* of add_array_to_sorts, add_station_mini, add_channel,
\* update_external_reference and get_current_mini_num
MaxCalls == 3
\* largest first_mini tried as an argument of get_current_mini_num
MaxFirstMini == 2
\* directory entries the program did not make, at most
MaxStrays == 1

(* ------------------------- program constants --------------------------- *)
\* self.mini_size_max = 26843545600 bytes = 25 GiB; sizes are counted in GiB
mini_size_max == 25

(* --------------------------- input domains ----------------------------- *)
\* names of instruments and stations, as lists of '_'-separated tokens
Names == {<<"MT01">>, <<"MT02">>}
\* the empty string
EmptyStr == <<>>
\* first_mini as handed to the constructor of MTtoPH5: its default, and
\* another number
FirstMinis == {1, 2}
\* size a recording adds to its mini file, in GiB
RecSizes == {1, 25}
\* length of a recording: the file at position p of ts_list starts at
\* (p - 1) * RecLen, and the channels of one file share their times
RecLen == 10

\* a parsed time series (mtts.MTTS) as single_ts_to_ph5 reads it: one station
\* with one sampling rate, recorded by either data logger; a file with several
\* channels yields channel numbers 1, 2, ...
TsObjs == [data_logger : Names, station : {<<"mt01">>}, start : {0},
           channel_number : {1}, sampling_rate : {256}, nbytes : RecSizes]

\* an array (station) metadata dictionary handed to add_array_to_sorts and
\* add_channel, of a station whose id_s, das/serial_number_s and
\* seed_station_name_s agree
ArrayDicts == {[id_s |-> n, seed_station_name_s |-> n, start |-> 0,
                channel_number_i |-> 1, sample_rate_i |-> 256] : n \in Names}

(* --------------------------- string helpers ---------------------------- *)
RECURSIVE Digits(_)
\* decimal digits of n, most significant first
Digits(n) == IF n < 10 THEN <<n>> ELSE Append(Digits(n \div 10), n % 10)

RECURSIVE ZeroPad(_, _)
\* left-pad a digit string with zeros up to width w; longer strings are kept
ZeroPad(d, w) == IF Len(d) >= w THEN d ELSE ZeroPad(<<0>> \o d, w)

\* '{0:05}'.format(n)
Format05(n) == ZeroPad(Digits(n), 5)

RECURSIVE ParseInt(_)
\* int(s) of a digit string
ParseInt(d) == IF Len(d) = 0 THEN 0
               ELSE 10 * ParseInt(SubSeq(d, 1, Len(d) - 1)) + d[Len(d)]

\* s.split('_')[-1] of a '_'-separated name
SplitLast(tokens) == <<tokens[Len(tokens)]>>

\* "Das_g_{0}".format(sn)
DasG(sn) == <<"Das", "g">> \o sn

\* "/Experiment_g/Receivers_g/Das_g_{0}".format(sn), as its '/'-separated parts
DasPath(sn) == <<EmptyStr, <<"Experiment", "g">>, <<"Receivers", "g">>, DasG(sn)>>

\* "./{0}".format(mini_name), as the two characters "./" and the file name
ExternalFileName(fname) == <<".", "/", fname>>

\* all orders in which a finite set can be enumerated (os.listdir)
Orders(S) == {o \in [1..Cardinality(S) -> S] :
                 \A i, j \in 1..Cardinality(S) : i # j => o[i] # o[j]}

\* value of an unset Python name (None)
NoneV == -1

\* in place of a value: the call raised an error
Raised == -2

\* Python truth value of None or an int
Falsy(x) == x = NoneV \/ x = 0

(* ------------------------------ state ---------------------------------- *)
VARIABLES
    minis,         \* mini files of the store directory: file name (the NNNNN
                   \* digits) -> [size, das: Das group -> [arrays, das_t]]
    handles,       \* mini handles that are open: the file, the Das group the
                   \* handle is current on, and the method that opened it
    master_nodes,  \* nodes under /Experiment_g/Receivers_g of the master
    master_das_t,  \* Das_t rows of the master's Das groups
    index_t,       \* the master Index_t rows
    receiver_t,    \* the master Receiver_t rows
    sorts,         \* the master's sorts array tables
    array_table,   \* MTtoPH5.array_table is set
    batch,         \* the running to_ph5 call: position in ts_list and counter
    self_first_mini, \* MTtoPH5.first_mini, as given to the constructor
    last,          \* the most recent call, its arguments and its outcome
    ingested,      \* history: the recordings put in without an error, in order
    ncalls,        \* number of calls made so far
    strays,        \* entries of the store directory that the program did not make
    time_meta_dict, \* the metadata dictionary handed to validate_time_metadata
    meta_given,    \* that dictionary as it was when the last call began
    procs          \* the ingests of two programs running on one store: how
                   \* far each is in add_station_mini, and its locals

vars == <<minis, handles, master_nodes, master_das_t, index_t, receiver_t,
          sorts, array_table, batch, self_first_mini, last, ingested, ncalls,
          strays, time_meta_dict, meta_given, procs>>

(* ------------------------ the store directory -------------------------- *)
\* A file name is kept as str.split('.') and str.split('_') see it: the
\* sequence of its '.'-separated segments, each the sequence of its
\* '_'-separated parts; a part is a run of digits or a word.
Word(w) == [alpha |-> w, digits |-> <<>>]
Num(d) == [alpha |-> "", digits |-> d]

\* "miniPH5_{0:05}.ph5".format(mini_num), fn being the five digits
MiniName(fn) == << <<Word("miniPH5"), Num(fn)>>, <<Word("ph5")>> >>

\* an entry of the directory: its name, whether it opens as a PH5 file, the Das
\* groups in it and its size
DirEntry(fn) == [name |-> MiniName(fn), opens |-> TRUE,
                 das |-> DOMAIN minis[fn].das, size |-> minis[fn].size]

\* entries a directory can hold besides the mini files the program makes:
\* miniPH5_00007.ph5.bak, xminiPH5_00007.ph5, miniPH5_7.ph5, master.ph5, and a
\* miniPH5_00007.ph5 that is not an HDF5 file
StrayEntries ==
    {[name |-> MiniName(<<0, 0, 0, 0, 7>>) \o << <<Word("bak")>> >>,
      opens |-> TRUE, das |-> {}, size |-> 0],
     [name |-> << <<Word("xminiPH5"), Num(<<0, 0, 0, 0, 7>>)>>, <<Word("ph5")>> >>,
      opens |-> TRUE, das |-> {}, size |-> 0],
     [name |-> MiniName(<<7>>), opens |-> TRUE, das |-> {}, size |-> 0],
     [name |-> << <<Word("master")>>, <<Word("ph5")>> >>,
      opens |-> TRUE, das |-> {}, size |-> 0],
     [name |-> MiniName(<<0, 0, 0, 0, 7>>), opens |-> FALSE, das |-> {}, size |-> 0]}

\* os.listdir(self.ph5_path), as a set
Dir == {DirEntry(fn) : fn \in DOMAIN minis} \cup strays

\* re.compile(r".*miniPH5_(\d+)\.ph5").match(entry): somewhere in the name a
\* word ending in miniPH5, then '_', digits, '.', and a word beginning with
\* ph5; match() does not ask the name to end there
miniPH5RE(name) ==
    \E i \in 1..(Len(name) - 1) :
        /\ Len(name[i]) >= 2
        /\ name[i][Len(name[i]) - 1] \in {Word("miniPH5"), Word("xminiPH5")}
        /\ name[i][Len(name[i])].alpha = "" /\ Len(name[i][Len(name[i])].digits) >= 1
        /\ name[i + 1][1] = Word("ph5")

\* get_mini_list: the directory entries the pattern matches, in the order
\* os.listdir yields them
get_mini_list(order) == SelectSeq(order, LAMBDA entry : miniPH5RE(entry.name))

\* mini_fn.split('.')[-2].split('_')[-1]
NumberPart(name) == name[Len(name) - 1][Len(name[Len(name) - 1])]

\* int(...) of that part raises ValueError unless it is a run of digits; and
\* ph5open raises on a file that is not HDF5
mini_map_raises(order) ==
    \E i \in 1..Len(get_mini_list(order)) :
        LET entry == get_mini_list(order)[i] IN
        \/ NumberPart(entry.name).alpha # ""
        \/ Len(NumberPart(entry.name).digits) = 0
        \/ ~entry.opens

\* mini_map: one descriptor per listed mini file
mini_map(order) ==
    [i \in 1..Len(get_mini_list(order)) |->
        LET entry == get_mini_list(order)[i] IN
        [num      |-> ParseInt(NumberPart(entry.name).digits),
         das_list |-> {SplitLast(g) : g \in entry.das},
         size     |-> entry.size]]

\* names of the sorts array tables, in the order ph5_g_sorts.names() lists them
TableOrder == <<"Array_t_001", "Array_t_002">>

RECURSIVE ConcatTables(_)
ConcatTables(i) ==
    IF i > Len(TableOrder) THEN <<>>
    ELSE (IF TableOrder[i] \in DOMAIN sorts THEN sorts[TableOrder[i]] ELSE <<>>)
         \o ConcatTables(i + 1)

\* get_arrays: every row of every array table
get_arrays == ConcatTables(1)

\* das_station_map: serial is row[4][0] (das/serial_number_s), station is
\* row[13] (seed_station_name_s)
das_station_map ==
    {[serial     |-> get_arrays[i].serial,
      station    |-> get_arrays[i].seed_station_name_s,
      array_name |-> get_arrays[i].array_name] : i \in 1..Len(get_arrays)}

\* largest num of the mini_map, starting from 0
Largest(mm) ==
    IF Len(mm) = 0 THEN 0
    ELSE LET m == CHOOSE i \in 1..Len(mm) : \A j \in 1..Len(mm) : mm[i].num >= mm[j].num
         IN IF mm[m].num >= 0 THEN mm[m].num ELSE 0

RECURSIVE ScanMinis(_, _, _, _, _)
\* the loop "for mini in self.mini_map" of get_current_mini_num; rebound says
\* that the inner loop "for station in self.mini_map" has overwritten station
ScanMinis(mm, i, station, current_mini, rebound) ==
    IF i > Len(mm) THEN current_mini
    ELSE LET mini == mm[i]
             hit  == /\ ~rebound
                     /\ \E entry \in das_station_map :
                           /\ entry.serial \in mini.das_list
                           /\ entry.station = station
             c1   == IF hit THEN mini.num ELSE current_mini
         IN IF Falsy(c1)
            THEN ScanMinis(mm, i + 1, station,
                           IF mini.size < mini_size_max
                           THEN Largest(mm) ELSE Largest(mm) + 1,
                           TRUE)
            ELSE ScanMinis(mm, i + 1, station, c1, rebound)

\* variant: the empty store always starts at mini file 1
get_current_mini_num_from_one(order, station, first_mini) ==
    IF Len(get_mini_list(order)) = 0 THEN 1
    ELSE IF mini_map_raises(order) THEN Raised
    ELSE ScanMinis(mini_map(order), 1, station, NoneV, FALSE)

\* get_current_mini_num(station, first_mini) with the directory listed in
\* order; an error of mini_map leaves the method
get_current_mini_num(order, station, first_mini) ==
    IF Len(get_mini_list(order)) = 0 THEN first_mini
    ELSE IF mini_map_raises(order) THEN Raised
    ELSE ScanMinis(mini_map(order), 1, station, NoneV, FALSE)

\* a freshly initialised mini file
NewMini == [size |-> 0, das |-> <<>>]

\* a freshly created Das group
NewDas == [arrays |-> <<>>, das_t |-> <<>>]

\* open_mini: miniPH5_{0:05}.ph5 is opened, and created when it is missing
open_mini(ms, mini_num) ==
    LET filename == Format05(mini_num) IN
    IF filename \in DOMAIN ms THEN ms
    ELSE [f \in DOMAIN ms \cup {filename} |-> IF f = filename THEN NewMini ELSE ms[f]]

\* getdas_g, and newdas when the group is missing, on a mini file
get_current_das(ms, filename, sn) ==
    IF DasG(sn) \in DOMAIN ms[filename].das THEN ms
    ELSE [ms EXCEPT ![filename].das =
            [g \in DOMAIN @ \cup {DasG(sn)} |-> IF g = DasG(sn) THEN NewDas ELSE @[g]]]

\* find_trace_ref: does the name resolve to an array of the current Das group
find_trace_ref(arrays, name) == \E i \in 1..Len(arrays) : arrays[i].name = name

\* variant: the name is made from the given count without looking it up
ProbeCount_unprobed(count, arrays) == count

\* variant: the search restarts at 1 whatever count is given
ProbeCount_from_one(count, arrays) ==
    LET free == {k \in 1..(Len(arrays) + 1) : ~find_trace_ref(arrays, Format05(k))}
    IN CHOOSE k \in free : \A j \in free : k <= j

RECURSIVE ProbeCount(_, _)
\* the loop that makes the name of the array: the first count from the given
\* one whose Data_a_<count> does not resolve
ProbeCount(count, arrays) ==
    IF find_trace_ref(arrays, Format05(count)) THEN ProbeCount(count + 1, arrays)
    ELSE count

\* variant: the new array takes the place of the arrays of the Das group
newarray_replacing(ms, filename, g, name, data, nbytes) ==
    [ms EXCEPT ![filename].das[g].arrays = <<[name |-> name, data |-> data]>>,
               ![filename].size = @ + nbytes]

\* newarray: the array is created in the current Das group and the file grows
newarray(ms, filename, g, name, data, nbytes) ==
    [ms EXCEPT ![filename].das[g].arrays = Append(@, [name |-> name, data |-> data]),
               ![filename].size = @ + nbytes]

\* variant: the row is not kept in the table
populateDas_t_dropped(ms, filename, g, row) == ms

\* populateDas_t on the current Das group of a mini file
populateDas_t(ms, filename, g, row) ==
    [ms EXCEPT ![filename].das[g].das_t = Append(@, row)]

\* variant: the new row is put in front of the table
populateIndex_t_in_front(rows, entry) == <<entry>> \o rows

\* populateIndex_t on the master
populateIndex_t(rows, entry) == Append(rows, entry)

(* ----------------------------- the master ------------------------------ *)
RECURSIVE FirstMatch(_, _, _, _, _)
\* index of the first array row with the given rate, channel and id_s, or 0
FirstMatch(rows, i, station, sample_rate, channel_number) ==
    IF i > Len(rows) THEN 0
    ELSE IF /\ rows[i].sample_rate_i = sample_rate
            /\ rows[i].channel_number_i = channel_number
            /\ rows[i].id_s = station
         THEN i
         ELSE FirstMatch(rows, i + 1, station, sample_rate, channel_number)

\* get_receiver_n
get_receiver_n(station, sample_rate, channel_number) ==
    LET i == FirstMatch(get_arrays, 1, station, sample_rate, channel_number) IN
    IF i # 0 THEN get_arrays[i].receiver_table_n_i ELSE Len(get_arrays)

\* get_response_n
get_response_n(station, sample_rate, channel_number) ==
    LET i == FirstMatch(get_arrays, 1, station, sample_rate, channel_number) IN
    IF i # 0 THEN get_arrays[i].response_table_n_i ELSE Len(get_arrays)

\* "station in entry['station']": the names of the model are whole tokens, so
\* one contains the other when they are equal or the searched one is empty
Contains(hay, needle) == needle = EmptyStr \/ needle = hay

\* what get_sort_array_name returns when no entry names the station (None)
NoTable == "None"

\* get_sort_array_name: the array table of the first entry naming the station
get_sort_array_name(station) ==
    LET rows == get_arrays
        hits == {i \in 1..Len(rows) : Contains(rows[i].seed_station_name_s, station)}
    IN IF hits = {} THEN NoTable
       ELSE rows[CHOOSE i \in hits : \A j \in hits : i <= j].array_name

\* populateArray_t(array_dict, name=array_name), the table made when missing
populateArray_t(st, array_name, row) ==
    IF array_name \in DOMAIN st THEN [st EXCEPT ![array_name] = Append(@, row)]
    ELSE [n \in DOMAIN st \cup {array_name} |->
             IF n = array_name THEN <<row>> ELSE st[n]]

\* variant: the Das group of the master is made with a sample array in it
GroupNode_with_array(name) ==
    [name |-> name, kind |-> "group", target |-> [file |-> <<>>, path |-> <<>>],
     arrays |-> <<[name |-> Format05(1), data |-> 0]>>]

\* a Das group of the master as newdas makes it, with no array in it, and a
\* link node, which holds no array
GroupNode(name) == [name |-> name, kind |-> "group",
                    target |-> [file |-> <<>>, path |-> <<>>], arrays |-> <<>>]
LinkNode(name, target) == [name |-> name, kind |-> "link", target |-> target,
                           arrays |-> <<>>]

\* getdas_g on the master: the Das group of that name, links are not groups
HasGroup(nodes, name) == \E n \in nodes : n.name = name /\ n.kind = "group"
HasNode(nodes, name) == \E n \in nodes : n.name = name

\* variant: removing the node at the path takes a Das group away as well
remove_node_recursive(nodes, name) == {n \in nodes : n.name # name}

\* group_node.remove() after get_node: a link is removed; a Das group holds
\* its tables, so removing it without recursion raises and nothing changes
remove_node(nodes, name) == {n \in nodes : ~(n.name = name /\ n.kind = "link")}

\* create_external_link: raises when the name is taken, and nothing changes
create_external_link(nodes, name, target) ==
    IF HasNode(nodes, name) THEN nodes ELSE nodes \cup {LinkNode(name, target)}

\* '{0}:{1}'.format(external_fn, external_dir) of an index entry
LinkTarget(entry) ==
    [file |-> SubSeq(entry.external_file_name_s, 3, Len(entry.external_file_name_s)),
     path |-> entry.hdf5_path_s]

\* update_external_reference(time_entry_dict); both try blocks swallow errors
update_external_reference(nodes, entry) ==
    LET external_group == entry.hdf5_path_s[4] IN
    create_external_link(remove_node(nodes, external_group), external_group,
                         LinkTarget(entry))

\* the link nodes of an instrument
LinksOf(nodes, sn) == {n \in nodes : n.name = DasG(sn) /\ n.kind = "link"}

(* --------------------------- time metadata ----------------------------- *)
\* the time groups validate_time_metadata looks at
TimeGroups == {"deploy_time", "pickup_time", "start_time", "end_time", "time_stamp"}

\* at most so many time groups of a dictionary carry a key
MaxTimeGroups == 1

\* A date-time is kept as datetime keeps it once it is UTC: whole seconds
\* since 1970-01-01T00:00:00 and microseconds.  An ascii time is the
\* date-time its text parses to.
DateTime(sec, us) == [sec |-> sec, us |-> us]

\* in place of a date-time: the key is not there
NoDateTime == DateTime(NoneV, NoneV)

\* the values the keys of a time group are given
AsciiTimes == {DateTime(10, 0), DateTime(10, 500000), DateTime(3610, 0)}
Epochs == {9, 10}
MicroSeconds == {0, 1, 500000}

\* the offsets of local time to UTC, in seconds, of the machines it runs on
LocalOffsets == {0, 3600}

\* the keys of one time group; NoneV for a key the dictionary does not have
TimeEntry(ascii_s, epoch_l, micro_seconds_i) ==
    [ascii_s |-> ascii_s, epoch_l |-> epoch_l, micro_seconds_i |-> micro_seconds_i]
NoTime == TimeEntry(NoDateTime, NoneV, NoneV)
TimeEntries == {TimeEntry(a, e, m) : a \in AsciiTimes \cup {NoDateTime},
                                     e \in Epochs \cup {NoneV},
                                     m \in MicroSeconds \cup {NoneV}}

\* a dictionary with no time key
NoMeta == [g \in TimeGroups |-> NoTime]

\* the dictionaries given: the groups of G carry keys, the others none; at
\* most max of the groups carry a key
MetaDicts(max) ==
    UNION {{[g \in TimeGroups |-> IF g \in G THEN f[g] ELSE NoTime] :
               f \in [G -> TimeEntries \ {NoTime}]} :
           G \in {S \in SUBSET TimeGroups : Cardinality(S) <= max}}

\* read_date_time(dt_obj.isoformat()): iso-format, epoch, microseconds
read_date_time(dt_obj) == TimeEntry(dt_obj, dt_obj.sec, dt_obj.us)

\* the first loop, for an epoch key: micro_seconds_i is added to the value
\* where the key exists, fromtimestamp gives the local date-time of that
\* many seconds, and check_timezone declares it UTC
EpochDateTime(entry, offset) ==
    DateTime(entry.epoch_l
                 + (IF entry.micro_seconds_i = NoneV THEN 0 ELSE entry.micro_seconds_i)
                 + offset,
             0)

\* the second loop, for one time group
validate_time_group(entry, offset) ==
    IF entry.epoch_l # NoneV /\ entry.ascii_s # NoDateTime
    THEN IF EpochDateTime(entry, offset) # entry.ascii_s
         THEN read_date_time(entry.ascii_s)
         ELSE entry
    ELSE IF entry.epoch_l = NoneV /\ entry.ascii_s = NoDateTime
    THEN entry
    ELSE IF entry.epoch_l = NoneV
    THEN read_date_time(entry.ascii_s)
    ELSE read_date_time(EpochDateTime(entry, offset))

\* validate_time_metadata(meta_dict) where local time is offset from UTC
validate_time_metadata(dict, offset) ==
    [g \in TimeGroups |-> validate_time_group(dict[g], offset)]

(* ------------------------ two programs, one store ---------------------- *)
\* the programs that run add_station_mini on the same store directory
Procs == {1, 2}

\* a program that is not inside add_station_mini
Idle == [pc |-> "idle", station_name |-> EmptyStr, mini_num |-> NoneV,
         unhosted |-> FALSE]
NoProcs == [p \in Procs |-> Idle]

(* ------------------------------ calls ---------------------------------- *)
\* no time series
NoTs == [data_logger |-> EmptyStr, station |-> EmptyStr, start |-> 0,
         channel_number |-> 0, sampling_rate |-> 0, nbytes |-> 0]

\* no to_ph5 call is running; rows0 is the length of the index table when
\* the running call began
NoBatch == [active |-> FALSE, idx |-> 0, count |-> 0, pending |-> 0, ts |-> NoTs,
            rows0 |-> 0]

\* a call that hands no index entries back to its caller
NoRet == [message |-> "", entries |-> <<>>]

\* what a call leaves in last
Call(op, status, sn, mini, name, count_in, count_out, before) ==
    [op |-> op, status |-> status, sn |-> sn, mini |-> mini, name |-> name,
     count_in |-> count_in, count_out |-> count_out, before |-> before,
     ret |-> NoRet, steps |-> <<>>]

\* the calls single_ts_to_ph5 makes that open, write or close something, in
\* the order of its statements; an error leaves the method at the call that
\* raised it: opened = the mini file was chosen and opened, written =
\* newarray wrote the array, raised = newdas on the master raised
single_ts_to_ph5_steps(opened, written, raised) ==
    IF ~opened THEN <<>>
    ELSE IF ~written THEN <<"open_mini">>
    ELSE IF raised THEN <<"open_mini", "newarray", "mini.populateDas_t">>
    ELSE <<"open_mini", "newarray", "mini.populateDas_t", "main.populateDas_t",
           "populateIndex_t", "ph5close">>

Init ==
    /\ minis = <<>>
    /\ handles = {}
    /\ master_nodes = {}
    /\ master_das_t = <<>>
    /\ index_t = <<>>
    /\ receiver_t = 0
    /\ sorts = <<>>
    /\ array_table = FALSE
    /\ batch = NoBatch
    /\ self_first_mini \in FirstMinis
    /\ ingested = <<>>
    /\ last = Call("init", "ok", EmptyStr, NoneV, <<>>, 0, 0, <<>>)
    /\ ncalls = 0
    /\ strays = {}
    /\ time_meta_dict = NoMeta
    /\ meta_given = NoMeta
    /\ procs = NoProcs

\* variant: external_file_name_s keeps the '' it is first given
make_index_t_entry_unset(ts_obj, mini_name) ==
    [serial_number_s      |-> ts_obj.data_logger,
     start                |-> ts_obj.start,
     end                  |-> ts_obj.start + RecLen,
     external_file_name_s |-> EmptyStr,
     hdf5_path_s          |-> DasPath(ts_obj.data_logger)]

\* make_index_t_entry with the external file name and path set
make_index_t_entry(ts_obj, mini_name) ==
    [serial_number_s      |-> ts_obj.data_logger,
     start                |-> ts_obj.start,
     end                  |-> ts_obj.start + RecLen,
     external_file_name_s |-> ExternalFileName(mini_name),
     hdf5_path_s          |-> DasPath(ts_obj.data_logger)]

\* make_das_entry with the cross-reference numbers and the array name set
make_das_entry(ts_obj, count, name) ==
    [array_name_data_a  |-> name,
     start              |-> ts_obj.start,
     sample_rate_i      |-> ts_obj.sampling_rate,
     channel_number_i   |-> ts_obj.channel_number,
     receiver_table_n_i |-> get_receiver_n(ts_obj.station, ts_obj.sampling_rate,
                                           ts_obj.channel_number),
     response_table_n_i |-> count]

\* make_array_entry
make_array_entry(ts_obj) ==
    [array_name          |-> "Array_t_001",
     id_s                |-> ts_obj.station,
     serial              |-> ts_obj.data_logger,
     seed_station_name_s |-> EmptyStr,
     start               |-> ts_obj.start,
     sample_rate_i       |-> ts_obj.sampling_rate,
     channel_number_i    |-> ts_obj.channel_number,
     receiver_table_n_i  |-> get_receiver_n(ts_obj.station, ts_obj.sampling_rate,
                                            ts_obj.channel_number),
     response_table_n_i  |-> get_response_n(ts_obj.station, ts_obj.sampling_rate,
                                            ts_obj.channel_number)]

\* get_current_das on the master: the Das group is made when getdas_g finds none
master_current_das(nodes, sn) ==
    IF HasGroup(nodes, DasG(sn)) THEN nodes ELSE nodes \cup {GroupNode(DasG(sn))}

\* populateDas_t on the current Das group of the master
master_populateDas_t(tabs, g, row) ==
    IF g \in DOMAIN tabs THEN [tabs EXCEPT ![g] = Append(@, row)]
    ELSE [x \in DOMAIN tabs \cup {g} |-> IF x = g THEN <<row>> ELSE tabs[x]]

\* what ingested keeps of a recording: who put it in, its instrument id and
\* times, and the file, Das group and name its array was written under
Ingested(op, sn, start, file, g, name, data) ==
    [op |-> op, sn |-> sn, start |-> start, end |-> start + RecLen,
     file |-> file, group |-> g, name |-> name, data |-> data]

\* single_ts_to_ph5(ts_obj, count) with the directory listed in order; nb is
\* what the to_ph5 loop keeps of its position.  Each local of the method is
\* bound once, in the order the method assigns it.  newarray may fail to
\* write (written = FALSE): the error leaves the method at that line.
single_ts_to_ph5(ts_obj, count, order, nb, written) ==
    \E current_mini \in {get_current_mini_num(order, ts_obj.data_logger, 1)} :
    IF current_mini = Raised
    THEN /\ batch' = NoBatch
         /\ ncalls' = ncalls + 1
         /\ last' = [Call("single_ts_to_ph5", "raised", ts_obj.data_logger, Raised,
                          <<>>, count, count, <<>>)
                        EXCEPT !.steps = single_ts_to_ph5_steps(FALSE, FALSE, FALSE)]
         /\ UNCHANGED <<minis, handles, master_nodes, master_das_t, index_t,
                        receiver_t, sorts, array_table, self_first_mini, ingested,
                        strays, time_meta_dict, meta_given, procs>>
    ELSE
    \E mini_name \in {Format05(current_mini)}, g \in {DasG(ts_obj.data_logger)} :
    \E ms1 \in {get_current_das(open_mini(minis, current_mini), mini_name,
                                ts_obj.data_logger)} :
    \E before \in {ms1[mini_name].das[g].arrays} :
    \E count1 \in {ProbeCount(count, before)} :
    \E name \in {Format05(count1)} :
    \E das_t_entry \in {make_das_entry(ts_obj, count, name)} :
    \* newdas on the master raises when a link node holds the group's name
    \E raised \in {HasNode(master_nodes, g) /\ ~HasGroup(master_nodes, g)} :
       /\ minis' = IF written
                   THEN populateDas_t(
                            newarray(ms1, mini_name, g, name, ncalls + 1, ts_obj.nbytes),
                            mini_name, g, das_t_entry)
                   ELSE ms1
       /\ ncalls' = ncalls + 1
       /\ IF raised \/ ~written
          THEN /\ handles' = handles \cup {[file |-> mini_name, cur |-> g,
                                               by |-> "single_ts_to_ph5"]}
               /\ batch' = NoBatch
               /\ last' = [Call("single_ts_to_ph5", "raised", ts_obj.data_logger,
                                current_mini, name, count, count1, before)
                              EXCEPT !.steps = single_ts_to_ph5_steps(TRUE, written,
                                                                      raised)]
               /\ UNCHANGED <<master_nodes, master_das_t, index_t, receiver_t, sorts,
                              ingested>>
          ELSE /\ master_nodes' = master_current_das(master_nodes, ts_obj.data_logger)
               /\ master_das_t' = master_populateDas_t(master_das_t, g, das_t_entry)
               /\ index_t' = populateIndex_t(index_t,
                                             make_index_t_entry(ts_obj, mini_name))
               /\ receiver_t' = receiver_t + 1
               /\ sorts' = populateArray_t(sorts, "Array_t_001", make_array_entry(ts_obj))
               /\ batch' = [nb EXCEPT !.count = count1]
               /\ last' = [Call("single_ts_to_ph5", "ok", ts_obj.data_logger,
                                current_mini, name, count, count1, before)
                              EXCEPT !.steps = single_ts_to_ph5_steps(TRUE, TRUE, FALSE)]
               /\ ingested' = Append(ingested,
                                  Ingested("single_ts_to_ph5", ts_obj.data_logger,
                                           ts_obj.start, mini_name, g, name, ncalls + 1))
               /\ UNCHANGED handles
       /\ UNCHANGED <<array_table, self_first_mini, strays, time_meta_dict, meta_given, procs>>

\* to_ph5 is called: the array table is made on the first call.  No call is
\* begun once MaxCalls recordings and calls have been made.
to_ph5_call ==
    /\ ~batch.active /\ ncalls < MaxCalls
    /\ array_table' = TRUE
    /\ sorts' = IF array_table \/ "Array_t_001" \in DOMAIN sorts THEN sorts
                ELSE [n \in DOMAIN sorts \cup {"Array_t_001"} |->
                         IF n = "Array_t_001" THEN <<>> ELSE sorts[n]]
    /\ batch' = [NoBatch EXCEPT !.active = TRUE, !.rows0 = Len(index_t)]
    /\ last' = Call("to_ph5", "called", EmptyStr, NoneV, <<>>, 0, 0, <<>>)
    /\ UNCHANGED <<minis, handles, master_nodes, master_das_t, index_t,
                   receiver_t, self_first_mini, ingested, ncalls, strays, time_meta_dict, meta_given, procs>>

\* recordings a source file with several channels yields (load_ts_obj)
ListLen == 2

\* one turn of the loop of to_ph5: count is the position of the file in
\* ts_list; the file holds one recording, or the first of ListLen
to_ph5_file ==
    /\ batch.active /\ batch.pending = 0 /\ ncalls < MaxCalls
    /\ \E ts \in TsObjs, is_list \in BOOLEAN, order \in Orders(Dir),
          written \in BOOLEAN :
       \E ts_obj \in {[ts EXCEPT !.start = batch.idx * RecLen]} :
          /\ single_ts_to_ph5(ts_obj, batch.idx + 1, order,
                 [active |-> TRUE, idx |-> batch.idx + 1, count |-> 0,
                  pending |-> IF is_list THEN ListLen - 1 ELSE 0, ts |-> ts_obj,
                  rows0 |-> batch.rows0], written)

\* the next recording of a file that yielded a list: count is carried over
to_ph5_list_next ==
    /\ batch.active /\ batch.pending > 0 /\ ncalls < MaxCalls
    /\ \E order \in Orders(Dir), written \in BOOLEAN :
          LET ts_obj == [batch.ts EXCEPT !.channel_number = @ + 1] IN
          single_ts_to_ph5(ts_obj, batch.count, order,
                 [batch EXCEPT !.pending = @ - 1, !.ts = ts_obj], written)

\* one turn of the loop of to_ph5 in which load_ts_obj raises: the entry of
\* ts_list is neither a file name nor an MTTS object, or a file name whose
\* extension is not known or whose file cannot be read.  Nothing in to_ph5
\* catches the error, it leaves the method.
to_ph5_load_error ==
    /\ batch.active /\ batch.pending = 0
    /\ batch' = NoBatch
    /\ last' = Call("load_ts_obj", "raised", EmptyStr, NoneV, <<>>, batch.idx + 1,
                    0, <<>>)
    /\ UNCHANGED <<minis, handles, master_nodes, master_das_t, index_t,
                   receiver_t, sorts, array_table, self_first_mini, ingested, ncalls, strays, time_meta_dict, meta_given, procs>>

\* the value to_ph5 returns: the string "done", and no index entries with it
to_ph5_result == [message |-> "done", entries |-> <<>>]

\* to_ph5 returns "done"
to_ph5_return ==
    /\ batch.active /\ batch.pending = 0
    /\ batch' = NoBatch
    /\ last' = [Call("to_ph5", "done", EmptyStr, NoneV, <<>>, 0, 0, <<>>)
                   EXCEPT !.ret = to_ph5_result]
    /\ UNCHANGED <<minis, handles, master_nodes, master_das_t, index_t,
                   receiver_t, sorts, array_table, self_first_mini, ingested, ncalls, strays, time_meta_dict, meta_given, procs>>

\* the row add_array_to_sorts puts into an array table
sorts_row(array_name, array_dict) ==
    [array_name          |-> array_name,
     id_s                |-> array_dict.id_s,
     serial              |-> array_dict.id_s,
     seed_station_name_s |-> array_dict.seed_station_name_s,
     start               |-> array_dict.start,
     sample_rate_i       |-> array_dict.sample_rate_i,
     channel_number_i    |-> array_dict.channel_number_i,
     receiver_table_n_i  |-> 1,
     response_table_n_i  |-> 1]

\* add_array_to_sorts(ph5_g_sorts.nextName(), array_dict), called on its own
add_array_to_sorts ==
    /\ ~batch.active /\ ncalls < MaxCalls
    /\ ncalls' = ncalls + 1
    /\ \E array_dict \in ArrayDicts :
          /\ sorts' = populateArray_t(sorts, "Array_t_002",
                                      sorts_row("Array_t_002", array_dict))
          /\ last' = Call("add_array_to_sorts", "ok", array_dict.id_s, NoneV, <<>>,
                          0, 0, <<>>)
    /\ UNCHANGED <<minis, handles, master_nodes, master_das_t, index_t,
                   receiver_t, array_table, batch, self_first_mini, ingested, strays, time_meta_dict, meta_given, procs>>

\* add_station_mini(station_name): the handle is returned open
add_station_mini ==
    /\ ~batch.active /\ ncalls < MaxCalls
    /\ ncalls' = ncalls + 1
    /\ \E station_name \in Names, order \in Orders(Dir) :
       \E mini_num \in {get_current_mini_num(order, station_name, 1)} :
       IF mini_num = Raised
       THEN /\ last' = Call("add_station_mini", "raised", station_name, Raised, <<>>,
                            0, 0, <<>>)
            /\ UNCHANGED <<minis, handles>>
       ELSE
       \E filename \in {Format05(mini_num)} :
          /\ minis' = get_current_das(open_mini(minis, mini_num), filename,
                                      station_name)
          /\ handles' = handles \cup {[file |-> filename, cur |-> DasG(station_name),
                                          by |-> "add_station_mini"]}
          /\ last' = Call("add_station_mini", "ok", station_name, mini_num, <<>>,
                          0, 0, <<>>)
    /\ UNCHANGED <<master_nodes, master_das_t, index_t, receiver_t, sorts,
                   array_table, batch, self_first_mini, ingested, strays, time_meta_dict, meta_given, procs>>

\* make_channel_entry with the array name set
make_channel_entry(array_dict, name) ==
    [array_name_data_a  |-> name,
     start              |-> array_dict.start,
     sample_rate_i      |-> array_dict.sample_rate_i,
     channel_number_i   |-> array_dict.channel_number_i,
     receiver_table_n_i |-> get_receiver_n(array_dict.id_s, array_dict.sample_rate_i,
                                           array_dict.channel_number_i),
     response_table_n_i |-> get_response_n(array_dict.id_s, array_dict.sample_rate_i,
                                           array_dict.channel_number_i)]

\* make_time_index_entry(meta_dict, mini_name)
make_time_index_entry(meta_dict, mini_name) ==
    [serial_number_s      |-> meta_dict.id_s,
     start                |-> meta_dict.start,
     end                  |-> meta_dict.start + RecLen,
     external_file_name_s |-> ExternalFileName(mini_name),
     hdf5_path_s          |-> DasPath(meta_dict.id_s)]

\* size of the channel_array given to add_channel, in GiB
ChannelArraySize == 1

\* add_channel(mini_ph5_obj, station, array_dict, channel_array); it raises in
\* add_array_to_sorts when get_sort_array_name finds no table for the station
add_channel ==
    /\ ~batch.active /\ ncalls < MaxCalls
    /\ \E mini_ph5_obj \in {h \in handles : h.by = "add_station_mini"},
          station \in Names, array_dict \in ArrayDicts :
       \E fn \in {mini_ph5_obj.file}, g \in {mini_ph5_obj.cur} :
       \E before \in {minis[fn].das[g].arrays} :
       \E count \in {ProbeCount(1, before)} :
       \E data_array_name \in {Format05(count)} :
       \E channel_dict \in {make_channel_entry(array_dict, data_array_name)} :
       \E sorts_array_name \in {get_sort_array_name(station)} :
       \E t_index_entry \in {make_time_index_entry(array_dict, fn)} :
          /\ minis' = populateDas_t(
                          newarray(minis, fn, g, data_array_name, ncalls + 1,
                                   ChannelArraySize),
                          fn, g, channel_dict)
          /\ ncalls' = ncalls + 1
          /\ IF sorts_array_name = NoTable
             THEN /\ last' = Call("add_channel", "raised", array_dict.id_s,
                                  ParseInt(fn), data_array_name, 1, count, before)
                  /\ UNCHANGED <<sorts, index_t, master_nodes, ingested>>
             ELSE /\ sorts' = populateArray_t(sorts, sorts_array_name,
                                  sorts_row(sorts_array_name, array_dict))
                  /\ index_t' = populateIndex_t(index_t, t_index_entry)
                  /\ master_nodes' = update_external_reference(master_nodes,
                                                               t_index_entry)
                  /\ last' = Call("add_channel", "ok", array_dict.id_s,
                                  ParseInt(fn), data_array_name, 1, count, before)
                  /\ ingested' = Append(ingested,
                                     Ingested("add_channel", array_dict.id_s,
                                              array_dict.start, fn, g,
                                              data_array_name, ncalls + 1))
    /\ UNCHANGED <<handles, master_das_t, receiver_t, array_table, batch, self_first_mini, strays, time_meta_dict, meta_given, procs>>

\* the entries a caller hands to update_external_reference: rows of the index
\* table, as they are or pointed at another mini file of the store, and
\* entries made with make_time_index_entry for a mini file of the store
RelinkEntries ==
    {[index_t[i] EXCEPT !.external_file_name_s = ExternalFileName(f)] :
        i \in 1..Len(index_t), f \in DOMAIN minis}
    \cup {make_time_index_entry(d, f) : d \in ArrayDicts, f \in DOMAIN minis}

\* update_external_reference(time_entry_dict), called on its own
update_external_reference_call ==
    /\ ~batch.active /\ ncalls < MaxCalls
    /\ ncalls' = ncalls + 1
    /\ \E entry \in RelinkEntries :
          /\ master_nodes' = update_external_reference(master_nodes, entry)
          /\ last' = Call("update_external_reference", "ok", entry.serial_number_s,
                          ParseInt(LinkTarget(entry).file[1]), <<>>, 0, 0, <<>>)
    /\ UNCHANGED <<minis, handles, master_das_t, index_t, receiver_t, sorts,
                   array_table, batch, self_first_mini, ingested, strays, time_meta_dict, meta_given, procs>>

\* update_external_reference is cut short after group_node.remove(), before
\* create_external_link (the process ends there)
update_external_reference_cut ==
    /\ ~batch.active /\ ncalls < MaxCalls
    /\ ncalls' = ncalls + 1
    /\ \E entry \in RelinkEntries :
          /\ master_nodes' = remove_node(master_nodes, entry.hdf5_path_s[4])
          /\ last' = Call("update_external_reference", "cut", entry.serial_number_s,
                          ParseInt(LinkTarget(entry).file[1]), <<>>, 0, 0, <<>>)
    /\ UNCHANGED <<minis, handles, master_das_t, index_t, receiver_t, sorts,
                   array_table, batch, self_first_mini, ingested, strays, time_meta_dict, meta_given, procs>>

\* get_current_mini_num(station, first_mini), called on its own: the mini
\* files are opened, read and closed, and the number is returned
get_current_mini_num_call ==
    /\ ~batch.active /\ ncalls < MaxCalls
    /\ ncalls' = ncalls + 1
    /\ \E station \in Names, first \in 0..MaxFirstMini, order \in Orders(Dir) :
       \E current_mini \in {get_current_mini_num(order, station, first)} :
          last' = Call("get_current_mini_num",
                       IF current_mini = Raised THEN "raised" ELSE "ok", station,
                       current_mini, <<>>, first, 0, <<>>)
    /\ UNCHANGED <<minis, handles, master_nodes, master_das_t, index_t, receiver_t,
                   sorts, array_table, batch, self_first_mini, ingested, strays, time_meta_dict, meta_given, procs>>

Next ==
    \/ to_ph5_call
    \/ to_ph5_file
    \/ to_ph5_list_next
    \/ to_ph5_load_error
    \/ to_ph5_return
    \/ add_array_to_sorts
    \/ add_station_mini
    \/ add_channel
    \/ update_external_reference_call
    \/ update_external_reference_cut
    \/ get_current_mini_num_call

Spec == Init /\ [][Next]_vars

\* The catalogue of a directory that also holds entries the program did not
\* make: the object is constructed on such a directory, mini files are added
\* for stations and the current mini number is asked for.
InitCatalog ==
    /\ minis = <<>>
    /\ handles = {}
    /\ master_nodes = {}
    /\ master_das_t = <<>>
    /\ index_t = <<>>
    /\ receiver_t = 0
    /\ sorts = <<>>
    /\ array_table = FALSE
    /\ batch = NoBatch
    /\ self_first_mini \in FirstMinis
    /\ ingested = <<>>
    /\ last = Call("init", "ok", EmptyStr, NoneV, <<>>, 0, 0, <<>>)
    /\ ncalls = 0
    /\ strays \in {S \in SUBSET StrayEntries : Cardinality(S) <= MaxStrays}
    /\ time_meta_dict = NoMeta
    /\ meta_given = NoMeta
    /\ procs = NoProcs

NextCatalog ==
    \/ add_station_mini
    \/ get_current_mini_num_call

SpecCatalog == InitCatalog /\ [][NextCatalog]_vars

\* The time metadata: a dictionary is given and validate_time_metadata is
\* called on it, once or again on what the call returned.
InitTime ==
    /\ minis = <<>>
    /\ handles = {}
    /\ master_nodes = {}
    /\ master_das_t = <<>>
    /\ index_t = <<>>
    /\ receiver_t = 0
    /\ sorts = <<>>
    /\ array_table = FALSE
    /\ batch = NoBatch
    /\ self_first_mini = 1
    /\ ingested = <<>>
    /\ last = Call("init", "ok", EmptyStr, NoneV, <<>>, 0, 0, <<>>)
    /\ ncalls = 0
    /\ strays = {}
    /\ time_meta_dict \in MetaDicts(MaxTimeGroups)
    /\ meta_given = time_meta_dict
    /\ procs = NoProcs

validate_time_metadata_call ==
    /\ \E offset \in LocalOffsets :
          time_meta_dict' = validate_time_metadata(time_meta_dict, offset)
    /\ meta_given' = time_meta_dict
    /\ last' = Call("validate_time_metadata", "ok", EmptyStr, NoneV, <<>>, 0, 0, <<>>)
    /\ UNCHANGED <<minis, handles, master_nodes, master_das_t, index_t, receiver_t,
                   sorts, array_table, batch, self_first_mini, ingested, ncalls,
                   strays, procs>>

NextTime == validate_time_metadata_call

SpecTime == InitTime /\ [][NextTime]_vars

\* The batches: only to_ph5 is called, on a store that is empty at first, and
\* one more recording than MaxCalls can be put in (ncalls starts one lower).
InitBatch ==
    /\ minis = <<>>
    /\ handles = {}
    /\ master_nodes = {}
    /\ master_das_t = <<>>
    /\ index_t = <<>>
    /\ receiver_t = 0
    /\ sorts = <<>>
    /\ array_table = FALSE
    /\ batch = NoBatch
    /\ self_first_mini = 1
    /\ ingested = <<>>
    /\ last = Call("init", "ok", EmptyStr, NoneV, <<>>, 0, 0, <<>>)
    /\ ncalls = -1
    /\ strays = {}
    /\ time_meta_dict = NoMeta
    /\ meta_given = NoMeta
    /\ procs = NoProcs

NextBatch ==
    \/ to_ph5_call
    \/ to_ph5_file
    \/ to_ph5_list_next
    \/ to_ph5_load_error
    \/ to_ph5_return

SpecBatch == InitBatch /\ [][NextBatch]_vars

\* Two programs call add_station_mini on one store.  Nothing in the method
\* takes a lock, so each of its statements that reads or writes the store is
\* a step of its own: get_current_mini_num, then open_mini with newdas; the
\* program then writes an array through the handle it got.
InitRace ==
    /\ minis = <<>>
    /\ handles = {}
    /\ master_nodes = {}
    /\ master_das_t = <<>>
    /\ index_t = <<>>
    /\ receiver_t = 0
    /\ sorts = <<>>
    /\ array_table = FALSE
    /\ batch = NoBatch
    /\ self_first_mini = 1
    /\ ingested = <<>>
    /\ last = Call("init", "ok", EmptyStr, NoneV, <<>>, 0, 0, <<>>)
    /\ ncalls = 0
    /\ strays = {}
    /\ time_meta_dict = NoMeta
    /\ meta_given = NoMeta
    /\ procs = NoProcs

\* mini_num = self.get_current_mini_num(station_name)
add_station_mini_read(p) ==
    /\ procs[p].pc = "idle" /\ ncalls < MaxCalls
    /\ ncalls' = ncalls + 1
    /\ \E station_name \in Names, order \in Orders(Dir) :
          /\ procs' = [procs EXCEPT ![p] =
                          [pc |-> "decided", station_name |-> station_name,
                           mini_num |-> get_current_mini_num(order, station_name, 1),
                           unhosted |-> \A fn \in DOMAIN minis :
                                           DasG(station_name) \notin DOMAIN minis[fn].das]]
          /\ last' = Call("get_current_mini_num", "ok", station_name,
                          get_current_mini_num(order, station_name, 1), <<>>, 1, 0, <<>>)
    /\ UNCHANGED <<minis, handles, master_nodes, master_das_t, index_t, receiver_t,
                   sorts, array_table, batch, self_first_mini, ingested, strays,
                   time_meta_dict, meta_given>>

\* open_mini(mini_num), getdas_g and newdas, setcurrent
add_station_mini_open(p) ==
    /\ procs[p].pc = "decided"
    /\ minis' = get_current_das(open_mini(minis, procs[p].mini_num),
                                Format05(procs[p].mini_num), procs[p].station_name)
    /\ handles' = handles \cup {[file |-> Format05(procs[p].mini_num),
                                    cur |-> DasG(procs[p].station_name),
                                    by |-> "add_station_mini"]}
    /\ procs' = [procs EXCEPT ![p].pc = "opened"]
    /\ last' = Call("add_station_mini", "ok", procs[p].station_name,
                    procs[p].mini_num, <<>>, 0, 0, <<>>)
    /\ UNCHANGED <<master_nodes, master_das_t, index_t, receiver_t, sorts,
                   array_table, batch, self_first_mini, ingested, ncalls, strays,
                   time_meta_dict, meta_given>>

\* newarray through the handle add_station_mini returned, as add_channel
\* does it; the program is then ready for its next call
add_station_mini_write(p) ==
    /\ procs[p].pc = "opened"
    /\ \E nbytes \in RecSizes :
       \E fn \in {Format05(procs[p].mini_num)}, g \in {DasG(procs[p].station_name)} :
       \E name \in {Format05(ProbeCount(1, minis[fn].das[g].arrays))} :
          /\ minis' = newarray(minis, fn, g, name, Len(ingested) + 1, nbytes)
          /\ ingested' = Append(ingested,
                             Ingested("add_channel", procs[p].station_name, 0, fn, g,
                                      name, Len(ingested) + 1))
          /\ last' = Call("newarray", "ok", procs[p].station_name,
                          procs[p].mini_num, name, 1, 1, <<>>)
    /\ procs' = [procs EXCEPT ![p] = Idle]
    /\ UNCHANGED <<handles, master_nodes, master_das_t, index_t, receiver_t, sorts,
                   array_table, batch, self_first_mini, ncalls, strays,
                   time_meta_dict, meta_given>>

NextRace ==
    \E p \in Procs :
        \/ add_station_mini_read(p)
        \/ add_station_mini_open(p)
        \/ add_station_mini_write(p)

SpecRace == InitRace /\ [][NextRace]_vars

(* ------------------------------ claims --------------------------------- *)
\* a mini file hosts an instrument when it holds the instrument's Das group
Hosts(fn, sn) == DasG(sn) \in DOMAIN minis[fn].das
Hosted(sn) == \E fn \in DOMAIN minis : Hosts(fn, sn)

\* C1: whenever some mini file hosts an instrument, get_current_mini_num
\* returns, for every order of the directory listing, the number of a mini
\* file that hosts it
C1_CoLocation ==
    \A sn \in Names, order \in Orders(Dir) :
        Hosted(sn) =>
            LET fn == Format05(get_current_mini_num(order, sn, 1))
            IN fn \in DOMAIN minis /\ Hosts(fn, sn)

\* the numerically largest mini file number of the store
LargestNum == CHOOSE n \in {ParseInt(f) : f \in DOMAIN minis} :
                 \A f \in DOMAIN minis : n >= ParseInt(f)

\* C2: when mini files exist and none hosts the instrument,
\* get_current_mini_num returns the largest number L if the size of mini file
\* L is below mini_size_max and L + 1 otherwise, and L + 1 is no existing file
C2_NewInstrumentPlacement ==
    \A sn \in Names, order \in Orders(Dir) :
        (DOMAIN minis # {} /\ ~Hosted(sn)) =>
            /\ get_current_mini_num(order, sn, 1) =
                  IF minis[Format05(LargestNum)].size < mini_size_max
                  THEN LargestNum ELSE LargestNum + 1
            /\ Format05(LargestNum + 1) \notin DOMAIN minis

\* C3: with no mini file in the directory, get_mini_list and mini_map are
\* empty and get_current_mini_num returns first_mini, for every instrument
\* and every first_mini, also in the call that was just made
C3_EmptyStore ==
    DOMAIN minis = {} =>
        /\ get_mini_list(<<>>) = <<>>
        /\ mini_map(<<>>) = <<>>
        /\ \A sn \in Names, first \in 0..MaxFirstMini :
              get_current_mini_num(<<>>, sn, first) = first
        /\ last.op = "get_current_mini_num" => last.mini = last.count_in

\* C3 witness: get_current_mini_num was called with first_mini = 2 on a
\* directory without mini files and returned 2
C3_Witness ==
    /\ DOMAIN minis = {}
    /\ last.op = "get_current_mini_num" /\ last.count_in = 2 /\ last.mini = 2

\* C4: the first recording to_ph5 puts into a store without mini files goes to
\* mini file number first_mini of the MTtoPH5 object, and no mini file has a
\* number below first_mini
C4_FirstMiniConfigurable ==
    /\ (last.op = "single_ts_to_ph5" /\ ncalls = 1) => last.mini = self_first_mini
    /\ \A f \in DOMAIN minis : ParseInt(f) >= self_first_mini

\* the last call wrote an array
WroteArray == last.op \in {"single_ts_to_ph5", "add_channel"}

\* C5: the array names written into one Das group of one mini file are
\* pairwise distinct, and no call writes under a name that already resolved
C5_NameUniqueness ==
    /\ \A f \in DOMAIN minis : \A g \in DOMAIN minis[f].das :
          LET arrays == minis[f].das[g].arrays IN
          \A i, j \in 1..Len(arrays) : i # j => arrays[i].name # arrays[j].name
    /\ WroteArray => ~find_trace_ref(last.before, last.name)

\* C5 witness: an array was written into a group that already held one, under
\* a name found after a taken one
C5_Witness ==
    /\ WroteArray /\ Len(last.before) >= 1 /\ last.count_out > last.count_in
    /\ \E f \in DOMAIN minis : \E g \in DOMAIN minis[f].das :
          Len(minis[f].das[g].arrays) >= 2

\* C6: the name made from start counter c against the arrays of the group is
\* Data_a_ followed by k in five digits, k the least number >= c whose name
\* does not resolve
C6_FirstFreeName ==
    WroteArray =>
        /\ last.count_out >= last.count_in
        /\ last.name = Format05(last.count_out)
        /\ Len(last.name) = 5 /\ ParseInt(last.name) = last.count_out
        /\ ~find_trace_ref(last.before, last.name)
        /\ \A j \in last.count_in..(last.count_out - 1) :
              find_trace_ref(last.before, Format05(j))

\* C6 witness: with start counter 1 and Data_a_00001 the only array of the
\* group, the name made is Data_a_00002
C6_Witness ==
    /\ WroteArray /\ last.count_in = 1
    /\ {last.before[i].name : i \in 1..Len(last.before)} = {<<0, 0, 0, 0, 1>>}
    /\ last.name = <<0, 0, 0, 0, 2>>

\* rows of the index table with the instrument id and times of a recording
MatchingRows(r) ==
    {i \in 1..Len(index_t) : /\ index_t[i].serial_number_s = r.sn
                             /\ index_t[i].start = r.start
                             /\ index_t[i].end = r.end}

\* the array of a recording is in that Das group of that mini file
ArrayIn(r, f, g) ==
    /\ f \in DOMAIN minis /\ g \in DOMAIN minis[f].das
    /\ \E k \in 1..Len(minis[f].das[g].arrays) :
          minis[f].das[g].arrays[k] = [name |-> r.name, data |-> r.data]

\* C7 as claimed: every recording put in has exactly one index row with its
\* instrument id and times, and that row names the mini file and the Das
\* group its array was written in
C7_ExactlyOneRow ==
    \A n \in 1..Len(ingested) :
        /\ Cardinality(MatchingRows(ingested[n])) = 1
        /\ \A i \in MatchingRows(ingested[n]) :
              /\ Len(LinkTarget(index_t[i]).file) = 1
              /\ ArrayIn(ingested[n], LinkTarget(index_t[i]).file[1],
                         index_t[i].hdf5_path_s[4])

\* C7 as amended: the n-th recording put in has the n-th index row, no other
\* row exists; the row bears its instrument id and times and names the mini
\* file its array is in, and for single_ts_to_ph5 also the Das group
C7_OneRowPerIngest ==
    /\ Len(index_t) = Len(ingested)
    /\ \A n \in 1..Len(ingested) :
          LET r == ingested[n]
              row == index_t[n]
          IN /\ n \in MatchingRows(r)
             /\ row.external_file_name_s = ExternalFileName(r.file)
             /\ ArrayIn(r, r.file, r.group)
             /\ row.hdf5_path_s = DasPath(r.sn)
             /\ r.op = "single_ts_to_ph5" => row.hdf5_path_s[4] = r.group

\* C7 witness: two recordings of one instrument over the same times are in,
\* so that two rows match each of them
C7_Witness ==
    \E n, m \in 1..Len(ingested) :
        /\ n # m /\ m \in MatchingRows(ingested[n])
        /\ Cardinality(MatchingRows(ingested[n])) = 2

\* C8: every step leaves the index rows it finds in place and in order, and
\* adds at most one row, at the end
C8_IndexAppendOnly ==
    [][/\ Len(index_t') \in {Len(index_t), Len(index_t) + 1}
       /\ SubSeq(index_t', 1, Len(index_t)) = index_t]_vars

\* C8 witness: two different rows are in the table and a relink has run since
C8_Witness ==
    /\ Len(index_t) >= 2 /\ index_t[1] # index_t[2]
    /\ last.op = "update_external_reference"

\* C9: after update_external_reference has run to its end for an instrument
\* and a mini file, on its own or within add_channel, the master holds exactly
\* one link node of the instrument, pointing at that file; and never two
C9_RelinkEndState ==
    /\ \A sn \in Names : Cardinality(LinksOf(master_nodes, sn)) <= 1
    /\ ( \/ last.op = "update_external_reference" /\ last.status = "ok"
         \/ last.op = "add_channel" /\ last.status = "ok" )
       => /\ Cardinality(LinksOf(master_nodes, last.sn)) = 1
          /\ \A n \in LinksOf(master_nodes, last.sn) :
                n.target = [file |-> <<Format05(last.mini)>>,
                            path |-> DasPath(last.sn)]

\* C10: after to_ph5 has put in a recording, the master holds exactly one
\* link node of its instrument, pointing at the mini file chosen for it
C10_IngestEndsLinked ==
    (last.op = "single_ts_to_ph5" /\ last.status = "ok") =>
        \E n \in master_nodes :
            /\ LinksOf(master_nodes, last.sn) = {n}
            /\ n.target.file = <<Format05(last.mini)>>

\* the rows the master's Das table of an instrument shows: those of its Das
\* group in the master, or, through a link node, those of the group the link
\* points at, when that group exists
MasterDasRows(sn) ==
    IF HasGroup(master_nodes, DasG(sn))
    THEN IF DasG(sn) \in DOMAIN master_das_t
         THEN {master_das_t[DasG(sn)][k] : k \in 1..Len(master_das_t[DasG(sn)])}
         ELSE {}
    ELSE UNION {
           IF /\ Len(n.target.file) = 1 /\ n.target.file[1] \in DOMAIN minis
              /\ n.target.path[4] \in DOMAIN minis[n.target.file[1]].das
           THEN LET t == minis[n.target.file[1]].das[n.target.path[4]].das_t
                IN {t[k] : k \in 1..Len(t)}
           ELSE {} : n \in LinksOf(master_nodes, sn)}

\* the Das_t rows an ingest wrote into the mini file, next to its array
MiniDasRows(r) ==
    LET t == minis[r.file].das[r.group].das_t
    IN {t[k] : k \in {j \in 1..Len(t) : t[j].array_name_data_a = r.name}}

\* C11: for every recording put in by single_ts_to_ph5 or add_channel, the
\* Das_t row written into the mini file, array name included, is also a row
\* of the master's Das table of the instrument
C11_DualWrite ==
    \A n \in 1..Len(ingested) :
        /\ MiniDasRows(ingested[n]) # {}
        /\ MiniDasRows(ingested[n]) \subseteq MasterDasRows(ingested[n].sn)

\* C12: when single_ts_to_ph5 or to_ph5 has returned or raised, no mini
\* handle it opened is still open
C12_HandlesScoped ==
    last.op \in {"single_ts_to_ph5", "to_ph5"} =>
        \A h \in handles : h.by # "single_ts_to_ph5"

\* C13: an error raised while a recording of the list is processed does not
\* end the to_ph5 call (to_ph5 takes no policy argument, so every call is also
\* the call of a caller who wants the rest of the list processed), and the
\* recordings put in before it stay in
C13_BatchErrorPolicy ==
    [][(batch.active /\ last'.status = "raised") =>
           /\ batch'.active
           /\ ingested' = ingested]_vars

\* C14: when to_ph5 returns, its caller gets the message of success together
\* with the index rows appended during the call, in the order they were
\* appended, as many as recordings were put in
C14_IngestResult ==
    [][(batch.active /\ last'.op = "to_ph5" /\ last'.status = "done") =>
           /\ last'.ret.message = "done"
           /\ last'.ret.entries = SubSeq(index_t, batch.rows0 + 1, Len(index_t))]_vars

\* C15: when a listed mini file fails to open, mini_map does not raise, and
\* get_current_mini_num gives a number for every station, also in the call
\* that was just made
C15_CatalogFailurePolicy ==
    /\ \A order \in Orders(Dir) :
          (\E i \in 1..Len(get_mini_list(order)) : ~get_mini_list(order)[i].opens)
          => /\ ~mini_map_raises(order)
             /\ \A sn \in Names : get_current_mini_num(order, sn, 1) # Raised
    /\ (last.op = "get_current_mini_num" /\ \E entry \in Dir : ~entry.opens)
       => last.status = "ok"

\* the name is miniPH5_, five digits, .ph5 and nothing else
StrictName(name) ==
    /\ Len(name) = 2 /\ Len(name[1]) = 2
    /\ name[1][1] = Word("miniPH5")
    /\ name[1][2].alpha = "" /\ Len(name[1][2].digits) = 5
    /\ name[2] = <<Word("ph5")>>

\* the entries of a listing that bear such a name
StrictOnly(order) == SelectSeq(order, LAMBDA entry : StrictName(entry.name))

\* C16: get_mini_list lists exactly the entries named miniPH5_NNNNN.ph5; the
\* other entries of the directory raise no error and do not change the mini
\* number chosen; every mini file the program made bears such a name
C16_StrictNaming ==
    /\ \A order \in Orders(Dir) :
          /\ get_mini_list(order) = StrictOnly(order)
          /\ \A sn \in Names, first \in 0..MaxFirstMini :
                get_current_mini_num(order, sn, first)
                    = get_current_mini_num(StrictOnly(order), sn, first)
    /\ \A fn \in DOMAIN minis : StrictName(MiniName(fn))

\* C17: a call that makes the master link of an instrument and returns without
\* an error (add_channel after the array and rows are written, or
\* update_external_reference on its own) leaves the link to the mini file in
\* the master, so that a link that could not be made is always reported; and
\* what was put in before stays in
C17_LinkErrorsReported ==
    [][(ncalls' # ncalls /\ last'.status = "ok"
            /\ last'.op \in {"add_channel", "update_external_reference"}) =>
           /\ \E n \in LinksOf(master_nodes', last'.sn) :
                  ParseInt(n.target.file[1]) = last'.mini
           /\ SubSeq(ingested', 1, Len(ingested)) = ingested]_vars

\* C18: after validate_time_metadata, every time group that was given an
\* ascii time has the whole seconds of that time in epoch_l and its
\* microseconds in micro_seconds_i, whatever epoch_l and micro_seconds_i were
\* given
C18_TimeReconciliation ==
    last.op = "validate_time_metadata" =>
        \A g \in TimeGroups :
            meta_given[g].ascii_s # NoDateTime =>
                /\ time_meta_dict[g].epoch_l = meta_given[g].ascii_s.sec
                /\ time_meta_dict[g].micro_seconds_i = meta_given[g].ascii_s.us

\* the places an array of the given samples is stored at: mini file, Das
\* group and position
ArrayPlaces(data) ==
    UNION {UNION {{<<fn, g, k>> : k \in {j \in 1..Len(minis[fn].das[g].arrays) :
                                          minis[fn].das[g].arrays[j].data = data}} :
                  g \in DOMAIN minis[fn].das} :
           fn \in DOMAIN minis}

\* C19: the samples of every recording put in, and of every array stored, are
\* stored at exactly one place, in one mini file; the master holds Das groups
\* and link nodes only, and no node of the master holds an array
C19_MasterHoldsNoSamples ==
    /\ \A n \in 1..Len(ingested) : Cardinality(ArrayPlaces(ingested[n].data)) = 1
    /\ \A fn \in DOMAIN minis : \A g \in DOMAIN minis[fn].das :
           \A k \in 1..Len(minis[fn].das[g].arrays) :
              Cardinality(ArrayPlaces(minis[fn].das[g].arrays[k].data)) = 1
    /\ \A n \in master_nodes : n.kind \in {"group", "link"} /\ n.arrays = <<>>

\* two recordings were put into different mini files and the master holds a
\* Das group of its own
C19_Witness ==
    /\ Len(ingested) >= 2
    /\ ingested[1].file # ingested[2].file
    /\ \E n \in master_nodes : n.kind = "group"

IngestSteps ==
    <<"open_mini", "newarray", "mini.populateDas_t", "main.populateDas_t",
      "populateIndex_t", "update_external_reference", "ph5close">>

\* C21: the steps single_ts_to_ph5 has made for a recording are the first
\* steps of: mini file chosen and opened, array written, Das_t row of the mini
\* file, Das_t row of the master, index row, link refreshed, mini handle closed
\* (so no index row without the array); when it returns it has made them all
C21_StepOrder ==
    last.op = "single_ts_to_ph5" =>
        /\ Len(last.steps) <= Len(IngestSteps)
        /\ last.steps = SubSeq(IngestSteps, 1, Len(last.steps))
        /\ last.status = "ok" => last.steps = IngestSteps

\* the arrays, and the Das_t rows, of a Das group of a mini file; none when
\* the file or the group is not there
ArraysOf(ms, fn, g) ==
    IF fn \in DOMAIN ms /\ g \in DOMAIN ms[fn].das THEN ms[fn].das[g].arrays ELSE <<>>
Das_tOf(ms, fn, g) ==
    IF fn \in DOMAIN ms /\ g \in DOMAIN ms[fn].das THEN ms[fn].das[g].das_t ELSE <<>>

\* the last call wrote its array and the Das_t row of it before it raised
RaisedAfterWriting ==
    /\ last.status = "raised"
    /\ \/ last.op = "add_channel"
       \/ last.op = "single_ts_to_ph5" /\ Len(last.steps) >= 3

\* C22: when single_ts_to_ph5 or add_channel raises, nothing of what comes
\* after the failing call is done (no row in the master's Das table, index
\* table, receiver table or array tables, no link, and before newarray no
\* array and no Das_t row in any mini file), and what was done before it stays:
\* the array written and its Das_t row are in the mini file
C22_FailureOfAStep ==
    [][(ncalls' # ncalls /\ last'.status = "raised"
            /\ last'.op \in {"single_ts_to_ph5", "add_channel"}) =>
           /\ master_das_t' = master_das_t /\ index_t' = index_t
           /\ receiver_t' = receiver_t /\ sorts' = sorts
           /\ master_nodes' = master_nodes /\ ingested' = ingested
           /\ IF RaisedAfterWriting'
              THEN \E g \in DOMAIN minis'[Format05(last'.mini)].das :
                   LET fn == Format05(last'.mini)
                   IN /\ ArraysOf(minis', fn, g)
                            = Append(ArraysOf(minis, fn, g),
                                     [name |-> last'.name, data |-> ncalls'])
                      /\ Len(Das_tOf(minis', fn, g)) = Len(Das_tOf(minis, fn, g)) + 1
                      /\ Das_tOf(minis', fn, g)[Len(Das_tOf(minis', fn, g))]
                            .array_name_data_a = last'.name
              ELSE \A fn \in DOMAIN minis' : \A g \in DOMAIN minis'[fn].das :
                      /\ ArraysOf(minis', fn, g) = ArraysOf(minis, fn, g)
                      /\ Das_tOf(minis', fn, g) = Das_tOf(minis, fn, g)]_vars

\* single_ts_to_ph5 raised on the master's Das group after the array and its
\* Das_t row were written into the mini file
C22_Witness ==
    /\ last.op = "single_ts_to_ph5" /\ RaisedAfterWriting
    /\ ArraysOf(minis, Format05(last.mini), DasG(last.sn)) # <<>>

\* the Das_t row the last call wrote into the mini file, and the array-table
\* row single_ts_to_ph5 added for the recording (it carries the station name)
WrittenDas_t(ms, r) ==
    CHOOSE row \in {ms[r.file].das[r.group].das_t[k] :
                       k \in 1..Len(ms[r.file].das[r.group].das_t)} :
        row.array_name_data_a = r.name
LastRow(rows) == rows[Len(rows)]

\* C23: the Das_t row written for a recording whose station, sample rate and
\* channel match an array-table row carries the receiver_table_n_i and the
\* response_table_n_i that get_receiver_n and get_response_n give for them
\* when the recording is put in, those of the first matching row
C23_CrossReferenceNumbers ==
    [][(/\ ncalls' # ncalls /\ last'.status = "ok"
        /\ last'.op \in {"single_ts_to_ph5", "add_channel"}) =>
           LET r       == LastRow(ingested')
               row     == WrittenDas_t(minis', r)
               station == IF last'.op = "add_channel" THEN r.sn
                          ELSE LastRow(sorts'["Array_t_001"]).id_s
               i       == FirstMatch(get_arrays, 1, station, row.sample_rate_i,
                                     row.channel_number_i)
           IN i # 0 =>
                 /\ row.receiver_table_n_i = get_arrays[i].receiver_table_n_i
                 /\ row.response_table_n_i = get_arrays[i].response_table_n_i
                 /\ row.receiver_table_n_i
                       = get_receiver_n(station, row.sample_rate_i, row.channel_number_i)
                 /\ row.response_table_n_i
                       = get_response_n(station, row.sample_rate_i, row.channel_number_i)]_vars

\* the stations, sample rates and channels the lookups are asked for
LookupStations == Names \cup {ts.station : ts \in TsObjs}
LookupRates == {ts.sampling_rate : ts \in TsObjs}
LookupChannels == {ts.channel_number : ts \in TsObjs}

\* C24: when no array-table row matches station, sample rate and channel,
\* get_receiver_n and get_response_n return a value that no row of the array
\* tables stores as its receiver or response number
C24_MissIsDistinguishable ==
    \A station \in LookupStations, rate \in LookupRates, ch \in LookupChannels :
        FirstMatch(get_arrays, 1, station, rate, ch) = 0 =>
            \A i \in 1..Len(get_arrays) :
                /\ get_receiver_n(station, rate, ch) # get_arrays[i].receiver_table_n_i
                /\ get_response_n(station, rate, ch) # get_arrays[i].response_table_n_i

\* the samples stored somewhere in the mini files
StoredData ==
    UNION {UNION {{minis[fn].das[g].arrays[k].data :
                      k \in 1..Len(minis[fn].das[g].arrays)} :
                  g \in DOMAIN minis[fn].das} :
           fn \in DOMAIN minis}

\* C25: no step of the program deletes a mini file or a Das group, and every
\* array stored before the step is after it at the same place of the same
\* mini file, under the same name and with the same samples, and nowhere else
C25_RecordingsImmutable ==
    [][/\ DOMAIN minis \subseteq DOMAIN minis'
       /\ \A fn \in DOMAIN minis :
              /\ DOMAIN minis[fn].das \subseteq DOMAIN minis'[fn].das
              /\ \A g \in DOMAIN minis[fn].das :
                     /\ Len(minis'[fn].das[g].arrays) >= Len(minis[fn].das[g].arrays)
                     /\ SubSeq(minis'[fn].das[g].arrays, 1, Len(minis[fn].das[g].arrays))
                           = minis[fn].das[g].arrays
       /\ \A d \in StoredData : ArrayPlaces(d)' = ArrayPlaces(d)]_vars

\* an array was written, another recording was put in after it, and the link
\* of an instrument was remade after that
C25_Witness ==
    /\ Len(ingested) >= 2
    /\ last.op = "update_external_reference"

\* C26: within one to_ph5 call, the count handed to single_ts_to_ph5 for a
\* recording is not below the count handed for the recording before it, nor
\* below the count single_ts_to_ph5 returned for the recording before it
C26_BatchNameCounter ==
    [][(/\ batch.active /\ last.op = "single_ts_to_ph5" /\ last.status = "ok"
        /\ ncalls' # ncalls /\ last'.op = "single_ts_to_ph5") =>
           /\ last'.count_in >= last.count_in
           /\ last'.count_in >= last.count_out]_vars

\* C27: when two programs are each inside add_station_mini for the same
\* instrument, one that no mini file hosted when they read the catalogue,
\* they are not both between reading the catalogue and opening the mini
\* file, and they have chosen the same mini file
C27_SelectionAtomic ==
    \A p, q \in Procs :
        (/\ p # q
         /\ procs[p].pc # "idle" /\ procs[q].pc # "idle"
         /\ procs[p].station_name = procs[q].station_name
         /\ procs[p].unhosted /\ procs[q].unhosted) =>
            /\ ~(procs[p].pc = "decided" /\ procs[q].pc = "decided")
            /\ procs[p].mini_num = procs[q].mini_num

\* a number of names after which the probing would have to give up (the
\* loops of the code name none; any number is exceeded in the same way)
MaxProbes == 2

\* C28: a call that has probed more than MaxProbes names for its array
\* (Data_a_ with count_in, count_in + 1, ... up to count_out) has raised an
\* error and has not gone on to write the array
C28_BoundedProbing ==
    (last.op \in {"single_ts_to_ph5", "add_channel"}
        /\ last.count_out - last.count_in + 1 > MaxProbes) =>
            /\ last.status = "raised"
            /\ \A n \in 1..Len(ingested) : ingested[n].data # ncalls

\* some entry of das_station_map names the station and a Das group of a
\* listed mini file
CanHit(order, sn) ==
    \E i \in 1..Len(mini_map(order)), entry \in das_station_map :
        entry.serial \in mini_map(order)[i].das_list /\ entry.station = sn

\* C29 as stated: the number depends on the mini files present and their
\* contents only, so that on one state of the store every call for an
\* instrument gives the same number, whatever order the directory is listed in
C29_SameStoreSameNumber ==
    \A sn \in Names, order1 \in Orders(Dir), order2 \in Orders(Dir) :
        get_current_mini_num(order1, sn, 1) = get_current_mini_num(order2, sn, 1)

\* the part of C29 that holds: get_current_mini_num answers from the store as
\* it is when called:
\* the number a call returned is the number the directory listing, the mini
\* files and the array tables as they are now give; with no mini file it is
\* first_mini; and where no array-table entry leads to a hosting file, it is
\* the largest number when every mini file is below mini_size_max now, and
\* the largest number plus one when every mini file has reached it now
C29_ReadsCurrentStore ==
    /\ last.op = "get_current_mini_num" =>
          \E order \in Orders(Dir) :
              last.mini = get_current_mini_num(order, last.sn, last.count_in)
    /\ \A sn \in Names, order \in Orders(Dir) :
          /\ DOMAIN minis = {} => get_current_mini_num(order, sn, 1) = 1
          /\ (DOMAIN minis # {} /\ ~CanHit(order, sn)) =>
                /\ (\A fn \in DOMAIN minis : minis[fn].size < mini_size_max)
                      => get_current_mini_num(order, sn, 1) = LargestNum
                /\ (\A fn \in DOMAIN minis : minis[fn].size >= mini_size_max)
                      => get_current_mini_num(order, sn, 1) = LargestNum + 1

\* a mini file was made and has grown to mini_size_max, and the call made
\* after that returned the number of a file that is not there yet
C29_Witness ==
    /\ DOMAIN minis # {}
    /\ \A fn \in DOMAIN minis : minis[fn].size >= mini_size_max
    /\ last.op = "get_current_mini_num" /\ last.mini = LargestNum + 1

\* the nodes of the master that are not link nodes of the instrument
NodesBesidesLinksOf(nodes, sn) == nodes \ LinksOf(nodes, sn)

\* C30: a step of update_external_reference, run to its end or cut short,
\* changes nothing but link nodes of the given instrument in the master: the
\* index table, the master's Das tables, receiver table and array tables, every
\* other node of the master (the Das group of the instrument itself included)
\* and every mini file are as before, and at most one link node of the
\* instrument is there afterwards
C30_RelinkFrame ==
    [][(last'.op = "update_external_reference" /\ ncalls' = ncalls + 1) =>
           /\ index_t' = index_t /\ master_das_t' = master_das_t
           /\ receiver_t' = receiver_t /\ array_table' = array_table
           /\ sorts' = sorts
           /\ minis' = minis /\ handles' = handles
           /\ NodesBesidesLinksOf(master_nodes', last'.sn)
                 = NodesBesidesLinksOf(master_nodes, last'.sn)
           /\ Cardinality(LinksOf(master_nodes', last'.sn)) <= 1]_vars

\* C30 witness: update_external_reference has run for an instrument whose Das
\* group the master holds with rows in its Das table, while the master also
\* holds the link node of another instrument and rows in the index table
C30_Witness ==
    /\ last.op = "update_external_reference"
    /\ HasGroup(master_nodes, DasG(last.sn))
    /\ DasG(last.sn) \in DOMAIN master_das_t
    /\ master_das_t[DasG(last.sn)] # <<>>
    /\ index_t # <<>>
    /\ \E sn \in Names \ {last.sn} : LinksOf(master_nodes, sn) # {}

====
